---- MODULE Spec2Model ----
(***************************************************************************)
(* The breakpoint broadcaster of the dashboard template: the module-level  *)
(* media queries, the handler registry with subscribe / unsubscribe, the   *)
(* getScreenSize read and the useScreenSize hook.                          *)
(*                                                                         *)
(* Widths are in thousandths of a CSS pixel, so that the query bounds      *)
(* 599.99px, 959.99px and 1279.99px and the widths that fall between two   *)
(* queries (599.995px) are integers.                                       *)
(***************************************************************************)
EXTENDS Integers, Sequences, FiniteSets, TLC

VARIABLES
    hasWindow,    \* typeof window !== 'undefined'
    media,        \* xSmallMedia .. largeMedia: "undefined" or "MediaQueryList"
    listeners,    \* number of native listeners added to each query
    handlers,     \* the registry: let handlers: Handle[]
    width,        \* the viewport width (1/1000 px)
    reported,     \* the match state each query had when the host last evaluated it
    queue,        \* change events of the current evaluation, not yet delivered
    iter,         \* the array a running handlers.forEach iterates (its first len elements)
    idx,          \* position of that forEach (1-based); idx > Len(iter): none running
    phase,        \* per hook instance: "new", "rendered" (effect pending), "subscribed",
                  \* "unmounted" (torn down)
    screenSize,   \* per hook instance: the state useScreenSize returns
    pending,      \* per hook instance: the value of a setScreenSize not yet rendered
    result,       \* the value returned by the last direct getScreenSize() call
    op,           \* history: the step just taken and the registry call it made
    calls,        \* history: invocations of each handle in the latest evaluation round
    atEval,       \* history: the registry when that round's evaluation was made
    nInto,        \* history: queries that became matching in that evaluation
    nFlip,        \* history: queries whose match state changed in that evaluation
    subs,         \* history: subscribe(h) calls since the last unsubscribe(h), per handle
    subsAtStart,  \* history: the value of subs when the running forEach started
    jar,          \* middleware: the client's 'session' cookie ("undefined": none)
    req,          \* middleware: the request being handled (path, session cookie sent)
    pc,           \* middleware: position of the middleware in that request
    response,     \* middleware: what the middleware returned for that request
    sessionOps,   \* history: the session calls made for that request, in order
    createdFor,   \* history: the userId createSession was called with for that request
    employees,    \* store: let employees: Employee[]
    nextId,       \* store: let nextId
    ret,          \* store: what the last service call returned
    args,         \* history: the arguments of the last service call
    issued,       \* history: the IDs given out since the store was last (re)initialised
    rows,         \* form page: the employees state (the list the grid shows)
    isEditing,    \* form page: the isEditing state
    editingId,    \* form page: the editingId state (<<>>: null, <<id>>: id)
    pagePhase,    \* form page: "new", "rendered" (load effect pending), "loaded"
    layoutKind,   \* layout: which side-nav layout is mounted ("none": none yet)
    menuStatus,   \* layout: the menuStatus state
    ev            \* history: what the last layout handler saw and did

vars == <<hasWindow, media, listeners, handlers, width, reported, queue, iter, idx,
          phase, screenSize, pending, result, op, calls, atEval, nInto, nFlip,
          subs, subsAtStart, jar, req, pc, response, sessionOps, createdFor,
          employees, nextId, ret, args, issued, rows, isEditing, editingId, pagePhase,
          layoutKind, menuStatus, ev>>

mwVars == <<jar, req, pc, response, sessionOps, createdFor>>

stVars == <<employees, nextId, ret, args, issued>>

pgVars == <<rows, isEditing, editingId, pagePhase>>

loVars == <<layoutKind, menuStatus, ev>>

appVars == <<stVars, pgVars, loVars>>

----------------------------------------------------------------------------
(* Bounds of the model *)

MaxHandlers == 2
MaxPx == 2000

(* Handles passed to subscribe / unsubscribe directly, and hook instances.  *)
(* The handle of a hook instance is its onSizeChanged callback, which       *)
(* useCallback(..., []) keeps identical for the life of the instance.       *)
Handles == {"h1", "h2"}
Bindings == {"b1", "b2"}
AllHandles == Handles \cup Bindings

Px(n) == n * 1000

(* Viewport widths of the state machine: one in each range, and one that    *)
(* lies between max-width: 599.99px and min-width: 600px.                   *)
Widths == {Px(500), 599995, Px(700), Px(1000), Px(1920)}

None == "none"
Undefined == "undefined"
Idle == "-"

(* No BreakpointSet: a hook instance that is not mounted, no update pending, *)
(* no read made yet.                                                         *)
NoSize == [isXSmall |-> None, isSmall |-> None, isMedium |-> None, isLarge |-> None]

----------------------------------------------------------------------------
(* The four width queries *)

XSmallMax == 599990
SmallMin == 600000
SmallMax == 959990
MediumMin == 960000
MediumMax == 1279990
LargeMin == 1280000

QueryNames == <<"xSmall", "small", "medium", "large">>
QuerySet == {QueryNames[i] : i \in 1..Len(QueryNames)}

(* The queries written with whole-pixel upper bounds (max-width: 600px, ...) *)
matchMedia_inclusive(q, w) ==
    CASE q = "xSmall" -> w <= SmallMin
      [] q = "small"  -> w >= SmallMin /\ w <= MediumMin
      [] q = "medium" -> w >= MediumMin /\ w <= LargeMin
      [] q = "large"  -> w >= LargeMin

matchMedia(q, w) ==
    CASE q = "xSmall" -> w <= XSmallMax
      [] q = "small"  -> w >= SmallMin /\ w <= SmallMax
      [] q = "medium" -> w >= MediumMin /\ w <= MediumMax
      [] q = "large"  -> w >= LargeMin

Bool(b) == IF b THEN "true" ELSE "false"

(* media.matches without the optional chaining: a TypeError when the       *)
(* query was never constructed                                              *)
OptMatches_unchained(q) ==
    IF media[q] = Undefined THEN "TypeError" ELSE Bool(matchMedia(q, width))

(* media?.matches *)
OptMatches(q) ==
    IF media[q] = Undefined THEN Undefined ELSE Bool(matchMedia(q, width))

getScreenSize ==
    [isXSmall |-> OptMatches("xSmall"),
     isSmall  |-> OptMatches("small"),
     isMedium |-> OptMatches("medium"),
     isLarge  |-> OptMatches("large")]

----------------------------------------------------------------------------
(* The registry *)

Range(s) == {s[i] : i \in 1..Len(s)}
Count(h, s) == Cardinality({i \in 1..Len(s) : s[i] = h})

(* push guarded by a membership test *)
push_unique(arr, handler) ==
    IF handler \in Range(arr) THEN arr ELSE Append(arr, handler)

push(arr, handler) == Append(arr, handler)

IndexOf(arr, handler) ==
    IF handler \in Range(arr)
       THEN CHOOSE i \in 1..Len(arr) :
                arr[i] = handler /\ \A j \in 1..(i - 1) : arr[j] # handler
       ELSE 0

RemoveAt(arr, i) == SubSeq(arr, 1, i - 1) \o SubSeq(arr, i + 1, Len(arr))

(* handlers.splice(handlers.indexOf(handler), 1): the first occurrence, or  *)
(* (index -1) the last element                                              *)
filter_splice(arr, handler) ==
    IF arr = <<>> THEN arr
    ELSE IF IndexOf(arr, handler) = 0 THEN RemoveAt(arr, Len(arr))
    ELSE RemoveAt(arr, IndexOf(arr, handler))

(* handlers.filter(...) with its result dropped *)
filter_discarded(arr, handler) == arr

(* a removal that cuts the array at the first occurrence *)
filter_truncate(arr, handler) ==
    IF IndexOf(arr, handler) = 0 THEN arr ELSE SubSeq(arr, 1, IndexOf(arr, handler) - 1)

filter(arr, handler) == SelectSeq(arr, LAMBDA item : item # handler)

(* a listener that notifies for the large query alone *)
ListenerFires_onlyLarge(e) == e.matches /\ e.media = "large"

(* a listener without the e.matches test *)
ListenerFires_always(e) == TRUE

(* if (e.matches) of the native listener *)
ListenerFires(e) == e.matches

Running == idx <= Len(iter)
Quiet == ~Running /\ queue = <<>>

NoCalls == [h \in AllHandles |-> 0]

Step(name, h, call, arg) == [name |-> name, h |-> h, call |-> call, arg |-> arg]

----------------------------------------------------------------------------
(* The middleware (src/middleware.tsx).  A path is the sequence of its      *)
(* characters, so that startsWith and the matcher are computed on it.       *)

startsWith(s, prefix) ==
    Len(s) >= Len(prefix) /\ SubSeq(s, 1, Len(prefix)) = prefix

endsWith(s, suffix) ==
    Len(s) >= Len(suffix) /\ SubSeq(s, Len(s) - Len(suffix) + 1, Len(s)) = suffix

Paths == {
    <<"/">>,
    <<"/", "p", "a", "g", "e">>,
    <<"/", "p", "a", "g", "e", "s">>,
    <<"/", "p", "a", "g", "e", "s", "x">>,
    <<"/", "p", "a", "g", "e", "s", "/", "f", "o", "r", "m">>,
    <<"/", "P", "a", "g", "e", "s">>,
    <<"/", "a", "u", "t", "h", "/", "l", "o", "g", "i", "n">>,
    <<"/", "a", "p", "i", "/", "x">>,
    <<"/", "p", "a", "g", "e", "s", "/", "a", ".", "p", "n", "g">>,
    <<"/", "_", "n", "e", "x", "t", "/", "s", "t", "a", "t", "i", "c", "/", "a">> }

(* path.startsWith('/pages') *)
isProtectedRoute(path) == startsWith(path, <<"/", "p", "a", "g", "e", "s">>)

(* config.matcher: every path except those whose part after the first /  *)
(* starts with api, _next/static or _next/image, or ends with .png        *)
config_matcher(path) ==
    /\ startsWith(path, <<"/">>)
    /\ LET rest == Tail(path)
       IN  /\ ~startsWith(rest, <<"a", "p", "i">>)
           /\ ~startsWith(rest, <<"_", "n", "e", "x", "t", "/", "s", "t", "a", "t", "i", "c">>)
           /\ ~startsWith(rest, <<"_", "n", "e", "x", "t", "/", "i", "m", "a", "g", "e">>)
           /\ ~endsWith(rest, <<".", "p", "n", "g">>)

DefaultUserId == "defaultUser.id"

(* the cookie createSession(userId) sets *)
encrypt(userId) == IF userId = DefaultUserId THEN "jwt:default" ELSE "jwt:other"

Cookies == {Undefined, "", "garbage", "jwt:nouser", encrypt("u1"), encrypt(DefaultUserId)}

(* the payload of a cookie: none for a value that does not verify *)
decrypt(cookie) ==
    CASE cookie = "jwt:default" -> [verified |-> TRUE, userId |-> DefaultUserId]
      [] cookie = "jwt:other"   -> [verified |-> TRUE, userId |-> "u1"]
      [] cookie = "jwt:nouser"  -> [verified |-> TRUE, userId |-> Undefined]
      [] OTHER                  -> [verified |-> FALSE, userId |-> Undefined]

(* session?.userId *)
userIdOf(session) == IF session.verified THEN session.userId ELSE Undefined

(* JavaScript truthiness of a string or undefined *)
Truthy(v) == v \notin {Undefined, ""}

NoReq == [path |-> <<>>, cookie |-> Undefined]

InitMiddleware ==
    /\ jar = Undefined
    /\ req = NoReq
    /\ pc = "idle"
    /\ response = None
    /\ sessionOps = <<>>
    /\ createdFor = Undefined

----------------------------------------------------------------------------
(* The employee store (app/pages/form/data.ts), the form page and the       *)
(* side-nav layouts: values and initial states.  An employee is its ID and  *)
(* its FirstName; the other fields are copied the way FirstName is.         *)

MaxId == 4

Null == <<>>
Some(x) == <<x>>

defaultEmployee == [ID |-> 1, FirstName |-> "John"]

NoEmployee == [ID |-> 0, FirstName |-> ""]

(* what a caller can pass as an employee: any ID, a name or no name field *)
Absent == "absent"
PayloadIds == {0, 1, 3}
Payloads == [ID : PayloadIds, FirstName : {"Ann", Absent}]

Returned(value, employee) == [value |-> value, employee |-> employee]
NoArg == [id |-> 0, employee |-> NoEmployee]

(* let employees = []; employees.push({ ...defaultEmployee }); let nextId = 2 *)
InitStore ==
    /\ employees = <<defaultEmployee>>
    /\ nextId = 2
    /\ ret = Returned(Undefined, NoEmployee)
    /\ args = NoArg
    /\ issued = {defaultEmployee.ID}

(* useState([]), useState(false), useState(null) *)
InitPage ==
    /\ rows = <<>>
    /\ isEditing = FALSE
    /\ editingId = Null
    /\ pagePhase = "new"

Closed == 1
Opened == 2
TemporaryOpened == 3
NotRendered == 0

NoEvent == [navigated |-> FALSE, returned |-> FALSE]

InitLayout ==
    /\ layoutKind = None
    /\ menuStatus = NotRendered
    /\ ev = NoEvent

InitApp == InitStore /\ InitPage /\ InitLayout

----------------------------------------------------------------------------
(* Module initialisation *)

(* the module body without the typeof window test, on a host that has      *)
(* matchMedia but no window object                                          *)
InitWith_unguarded(win, w) ==
    /\ hasWindow = win
    /\ media = [q \in QuerySet |-> "MediaQueryList"]
    /\ listeners = [q \in QuerySet |-> 1]
    /\ handlers = <<>>
    /\ width = w
    /\ reported = [q \in QuerySet |-> win /\ matchMedia(q, w)]
    /\ queue = <<>>
    /\ iter = <<>>
    /\ idx = 1
    /\ phase = [b \in Bindings |-> "new"]
    /\ screenSize = [b \in Bindings |-> NoSize]
    /\ pending = [b \in Bindings |-> NoSize]
    /\ result = NoSize
    /\ op = Step("init", Idle, None, Idle)
    /\ calls = NoCalls
    /\ atEval = <<>>
    /\ nInto = 0
    /\ nFlip = 0
    /\ subs = NoCalls
    /\ subsAtStart = NoCalls
    /\ InitMiddleware
    /\ InitApp

InitWith(win, w) ==
    /\ hasWindow = win
    /\ media = [q \in QuerySet |-> IF win THEN "MediaQueryList" ELSE Undefined]
    /\ listeners = [q \in QuerySet |-> IF win THEN 1 ELSE 0]
    /\ handlers = <<>>
    /\ width = w
    /\ reported = [q \in QuerySet |-> win /\ matchMedia(q, w)]
    /\ queue = <<>>
    /\ iter = <<>>
    /\ idx = 1
    /\ phase = [b \in Bindings |-> "new"]
    /\ screenSize = [b \in Bindings |-> NoSize]
    /\ pending = [b \in Bindings |-> NoSize]
    /\ result = NoSize
    /\ op = Step("init", Idle, None, Idle)
    /\ calls = NoCalls
    /\ atEval = <<>>
    /\ nInto = 0
    /\ nFlip = 0
    /\ subs = NoCalls
    /\ subsAtStart = NoCalls
    /\ InitMiddleware
    /\ InitApp

Init == \E win \in BOOLEAN : \E w \in Widths : InitWith(win, IF win THEN w ELSE 0)

InitRead ==
    \E win \in BOOLEAN : \E n \in 0..MaxPx : InitWith(win, IF win THEN Px(n) ELSE 0)

----------------------------------------------------------------------------
(* subscribe and unsubscribe, as called from anywhere *)

subscribe(handler) ==
    /\ handlers' = push(handlers, handler)
    /\ subs' = [subs EXCEPT ![handler] = @ + 1]

unsubscribe(handler) ==
    /\ handlers' = filter(handlers, handler)
    /\ subs' = [subs EXCEPT ![handler] = 0]

(* The record of the latest evaluation round is kept until the program      *)
(* does something else.                                                     *)
Forget ==
    /\ calls' = NoCalls
    /\ atEval' = <<>>
    /\ nInto' = 0
    /\ nFlip' = 0

(* A direct call from idle code (no dispatch on the stack). *)
Subscribe(h) ==
    /\ Quiet
    /\ Len(handlers) < MaxHandlers
    /\ subscribe(h)
    /\ Forget
    /\ op' = Step("subscribe", Idle, "subscribe", h)
    /\ UNCHANGED <<hasWindow, media, listeners, width, reported, queue, iter, idx,
                   phase, screenSize, pending, result, subsAtStart>>
    /\ UNCHANGED mwVars
    /\ UNCHANGED appVars

Unsubscribe(h) ==
    /\ Quiet
    /\ unsubscribe(h)
    /\ Forget
    /\ op' = Step("unsubscribe", Idle, "unsubscribe", h)
    /\ UNCHANGED <<hasWindow, media, listeners, width, reported, queue, iter, idx,
                   phase, screenSize, pending, result, subsAtStart>>
    /\ UNCHANGED mwVars
    /\ UNCHANGED appVars

----------------------------------------------------------------------------
(* The host: viewport changes, evaluation of the queries, delivery of the   *)
(* change events to the native listeners                                    *)

Resize(w) ==
    /\ hasWindow
    /\ Quiet
    /\ w # width
    /\ width' = w
    /\ Forget
    /\ op' = Step("resize", Idle, None, Idle)
    /\ UNCHANGED <<hasWindow, media, listeners, handlers, reported, queue, iter, idx,
                   phase, screenSize, pending, result, subs, subsAtStart>>
    /\ UNCHANGED mwVars
    /\ UNCHANGED appVars

Changed ==
    SelectSeq(QueryNames,
              LAMBDA q : listeners[q] > 0 /\ matchMedia(q, width) # reported[q])

(* One change event per query whose match state differs from the one last   *)
(* reported, in the order the queries were created.                         *)
Evaluate ==
    /\ hasWindow
    /\ Quiet
    /\ Changed # <<>>
    /\ queue' = [i \in 1..Len(Changed) |->
                    [media |-> Changed[i], matches |-> matchMedia(Changed[i], width)]]
    /\ reported' = [q \in QuerySet |-> matchMedia(q, width)]
    /\ calls' = NoCalls
    /\ atEval' = handlers
    /\ nInto' = Cardinality({i \in 1..Len(Changed) : matchMedia(Changed[i], width)})
    /\ nFlip' = Len(Changed)
    /\ op' = Step("evaluate", Idle, None, Idle)
    /\ UNCHANGED <<hasWindow, media, listeners, handlers, width, iter, idx,
                   phase, screenSize, pending, result, subs, subsAtStart>>
    /\ UNCHANGED mwVars
    /\ UNCHANGED appVars

(* media.addListener((e) => { if (e.matches) handlers.forEach(...) }) *)
Deliver ==
    /\ queue # <<>>
    /\ ~Running
    /\ queue' = Tail(queue)
    /\ IF ListenerFires(Head(queue))
          THEN /\ iter' = handlers
               /\ idx' = 1
               /\ subsAtStart' = IF handlers = <<>> THEN NoCalls ELSE subs
          ELSE UNCHANGED <<iter, idx, subsAtStart>>
    /\ op' = Step("deliver", Idle, None, Idle)
    /\ UNCHANGED <<hasWindow, media, listeners, handlers, width, reported,
                   phase, screenSize, pending, result, calls, atEval, nInto, nFlip,
                   subs>>
    /\ UNCHANGED mwVars
    /\ UNCHANGED appVars

----------------------------------------------------------------------------
(* handlers.forEach(handler => handler()): one step per call.  forEach      *)
(* reads the length once and visits the elements below it; push only adds   *)
(* above it and filter builds another array, so iter is what it visits.     *)

(* a loop that reads handlers[i] and handlers.length again at every turn *)
Advance_live ==
    IF idx + 1 > Len(handlers')
       THEN iter' = <<>> /\ idx' = 1 /\ subsAtStart' = NoCalls
       ELSE iter' = handlers' /\ idx' = idx + 1 /\ subsAtStart' = subsAtStart

Advance ==
    IF idx + 1 > Len(iter)
       THEN iter' = <<>> /\ idx' = 1 /\ subsAtStart' = NoCalls
       ELSE iter' = iter /\ idx' = idx + 1 /\ subsAtStart' = subsAtStart

(* a loop that walks the array from its last element down *)
Current_reverse == iter[Len(iter) + 1 - idx]

(* The handler the forEach calls next. *)
Current == iter[idx]

Called(h) == calls' = [calls EXCEPT ![h] = @ + 1]

Mounted(b) == phase[b] \in {"rendered", "subscribed"}

(* setScreenSize(value): React queues the update of a mounted instance *)
setScreenSize(b, value) ==
    [pending EXCEPT ![b] = IF Mounted(b) THEN value ELSE NoSize]

(* a callback that republishes the state captured when it was created *)
onSizeChanged_stale(b) == setScreenSize(b, screenSize[b])

(* const onSizeChanged = useCallback(() => setScreenSize(getScreenSize()), []) *)
onSizeChanged(b) == setScreenSize(b, getScreenSize)

InvokeBinding ==
    /\ Running
    /\ Current \in Bindings
    /\ pending' = onSizeChanged(Current)
    /\ Called(Current)
    /\ UNCHANGED <<hasWindow, media, listeners, handlers, width, reported, queue,
                   phase, screenSize, result, atEval, nInto, nFlip, subs>>
    /\ Advance
    /\ op' = Step("invoke", Current, None, Idle)
    /\ UNCHANGED mwVars
    /\ UNCHANGED appVars

(* A handle whose body leaves the registry alone. *)
InvokePlain ==
    /\ Running
    /\ Current \in Handles
    /\ Called(Current)
    /\ UNCHANGED <<hasWindow, media, listeners, handlers, width, reported, queue,
                   phase, screenSize, pending, result, atEval, nInto, nFlip, subs>>
    /\ Advance
    /\ op' = Step("invoke", Current, None, Idle)
    /\ UNCHANGED mwVars
    /\ UNCHANGED appVars

(* A handle whose body calls subscribe(g). *)
InvokeSubscribing(g) ==
    /\ Running
    /\ Current \in Handles
    /\ Len(handlers) < MaxHandlers
    /\ subscribe(g)
    /\ Called(Current)
    /\ UNCHANGED <<hasWindow, media, listeners, width, reported, queue,
                   phase, screenSize, pending, result, atEval, nInto, nFlip>>
    /\ Advance
    /\ op' = Step("invoke", Current, "subscribe", g)
    /\ UNCHANGED mwVars
    /\ UNCHANGED appVars

(* A handle whose body calls unsubscribe(g). *)
InvokeUnsubscribing(g) ==
    /\ Running
    /\ Current \in Handles
    /\ unsubscribe(g)
    /\ Called(Current)
    /\ UNCHANGED <<hasWindow, media, listeners, width, reported, queue,
                   phase, screenSize, pending, result, atEval, nInto, nFlip>>
    /\ Advance
    /\ op' = Step("invoke", Current, "unsubscribe", g)
    /\ UNCHANGED mwVars
    /\ UNCHANGED appVars

----------------------------------------------------------------------------
(* useScreenSize *)

(* First render: useState(getScreenSize()) *)
useScreenSize_firstRender(b) ==
    /\ Quiet
    /\ ~Mounted(b)
    /\ phase' = [phase EXCEPT ![b] = "rendered"]
    /\ screenSize' = [screenSize EXCEPT ![b] = getScreenSize]
    /\ Forget
    /\ op' = Step("render", b, None, Idle)
    /\ UNCHANGED <<hasWindow, media, listeners, handlers, width, reported, queue,
                   iter, idx, pending, result, subs, subsAtStart>>

(* a component that only calls the hook *)
Render(b) ==
    /\ useScreenSize_firstRender(b)
    /\ UNCHANGED mwVars
    /\ UNCHANGED appVars

(* an effect that also adds a native listener of its own to every query *)
Effect_addsListener(b) ==
    /\ Quiet
    /\ phase[b] = "rendered"
    /\ Len(handlers) < MaxHandlers
    /\ subscribe(b)
    /\ listeners' = [q \in QuerySet |-> listeners[q] + 1]
    /\ phase' = [phase EXCEPT ![b] = "subscribed"]
    /\ Forget
    /\ op' = Step("effect", b, "subscribe", b)
    /\ UNCHANGED <<hasWindow, media, width, reported, queue, iter, idx,
                   screenSize, pending, result, subsAtStart>>
    /\ UNCHANGED mwVars
    /\ UNCHANGED appVars

(* useEffect body: subscribe(onSizeChanged) *)
Effect(b) ==
    /\ Quiet
    /\ phase[b] = "rendered"
    /\ Len(handlers) < MaxHandlers
    /\ subscribe(b)
    /\ phase' = [phase EXCEPT ![b] = "subscribed"]
    /\ Forget
    /\ op' = Step("effect", b, "subscribe", b)
    /\ UNCHANGED <<hasWindow, media, listeners, width, reported, queue, iter, idx,
                   screenSize, pending, result, subsAtStart>>
    /\ UNCHANGED mwVars
    /\ UNCHANGED appVars

(* useEffect cleanup at teardown: unsubscribe(onSizeChanged) *)
Cleanup(b) ==
    /\ Quiet
    /\ phase[b] = "subscribed"
    /\ unsubscribe(b)
    /\ phase' = [phase EXCEPT ![b] = "unmounted"]
    /\ screenSize' = [screenSize EXCEPT ![b] = NoSize]
    /\ pending' = [pending EXCEPT ![b] = NoSize]
    /\ Forget
    /\ op' = Step("cleanup", b, "unsubscribe", b)
    /\ UNCHANGED <<hasWindow, media, listeners, width, reported, queue, iter, idx,
                   result, subsAtStart>>
    /\ UNCHANGED mwVars
    /\ UNCHANGED appVars

(* a render that sets the menu from the new isLarge *)
Rerender_syncsMenu(b) ==
    /\ ~Running
    /\ Mounted(b)
    /\ pending[b] # NoSize
    /\ screenSize' = [screenSize EXCEPT ![b] = pending[b]]
    /\ pending' = [pending EXCEPT ![b] = NoSize]
    /\ menuStatus' = IF menuStatus = NotRendered THEN menuStatus
                     ELSE IF pending[b].isLarge = "true" THEN Opened ELSE Closed
    /\ op' = Step("rerender", b, None, Idle)
    /\ UNCHANGED <<hasWindow, media, listeners, handlers, width, reported, queue,
                   iter, idx, phase, result, calls, atEval, nInto, nFlip,
                   subs, subsAtStart>>
    /\ UNCHANGED mwVars
    /\ UNCHANGED <<stVars, pgVars, layoutKind, ev>>

(* The render that follows a setScreenSize: the hook returns the new state. *)
Rerender(b) ==
    /\ ~Running
    /\ Mounted(b)
    /\ pending[b] # NoSize
    /\ screenSize' = [screenSize EXCEPT ![b] = pending[b]]
    /\ pending' = [pending EXCEPT ![b] = NoSize]
    /\ op' = Step("rerender", b, None, Idle)
    /\ UNCHANGED <<hasWindow, media, listeners, handlers, width, reported, queue,
                   iter, idx, phase, result, calls, atEval, nInto, nFlip,
                   subs, subsAtStart>>
    /\ UNCHANGED mwVars
    /\ UNCHANGED appVars

----------------------------------------------------------------------------
(* A direct getScreenSize() call *)

(* a read that constructs the queries and adds the listeners on demand *)
Read_lazy ==
    /\ Quiet
    /\ result' = getScreenSize
    /\ listeners' = [q \in QuerySet |-> listeners[q] + 1]
    /\ op' = Step("read", Idle, None, Idle)
    /\ UNCHANGED <<hasWindow, media, handlers, width, reported, queue,
                   iter, idx, phase, screenSize, pending, calls, atEval, nInto, nFlip,
                   subs, subsAtStart>>
    /\ UNCHANGED mwVars
    /\ UNCHANGED appVars

Read ==
    /\ Quiet
    /\ result' = getScreenSize
    /\ op' = Step("read", Idle, None, Idle)
    /\ UNCHANGED <<hasWindow, media, listeners, handlers, width, reported, queue,
                   iter, idx, phase, screenSize, pending, calls, atEval, nInto, nFlip,
                   subs, subsAtStart>>
    /\ UNCHANGED mwVars
    /\ UNCHANGED appVars

----------------------------------------------------------------------------

Next ==
    \/ \E h \in Handles : Subscribe(h)
    \/ \E h \in Handles : Unsubscribe(h)
    \/ \E w \in Widths : Resize(w)
    \/ Evaluate
    \/ Deliver
    \/ InvokeBinding
    \/ InvokePlain
    \/ \E g \in Handles : InvokeSubscribing(g)
    \/ \E g \in Handles : InvokeUnsubscribing(g)
    \/ \E b \in Bindings : Render(b)
    \/ \E b \in Bindings : Effect(b)
    \/ \E b \in Bindings : Cleanup(b)
    \/ \E b \in Bindings : Rerender(b)

Spec == Init /\ [][Next]_vars

(* getScreenSize over every whole-pixel width *)
NextRead ==
    \/ Read
    \/ \E w \in Widths : Resize(w)

SpecRead == InitRead /\ [][NextRead]_vars

(* Every operation of the module, getScreenSize() calls included, with one  *)
(* hook instance and four widths.                                           *)
ApiWidths == {Px(500), 599995, Px(700), Px(1920)}
ApiBindings == {"b1"}

InitApi == \E win \in BOOLEAN : InitWith(win, IF win THEN Px(500) ELSE 0)

NextApi ==
    \/ \E h \in Handles : Subscribe(h)
    \/ \E h \in Handles : Unsubscribe(h)
    \/ \E w \in ApiWidths : Resize(w)
    \/ Evaluate
    \/ Deliver
    \/ InvokeBinding
    \/ InvokePlain
    \/ \E g \in Handles : InvokeSubscribing(g)
    \/ \E g \in Handles : InvokeUnsubscribing(g)
    \/ \E b \in ApiBindings : Render(b)
    \/ \E b \in ApiBindings : Effect(b)
    \/ \E b \in ApiBindings : Cleanup(b)
    \/ \E b \in ApiBindings : Rerender(b)
    \/ Read

SpecApi == InitApi /\ [][NextApi]_vars

----------------------------------------------------------------------------
(* unsubscribe on every registry of up to FilterMaxLen entries: the code    *)
(* puts no bound on the registry and subscribe does not deduplicate.  A     *)
(* hook instance has at most one entry, and has one when it is subscribed.  *)

FilterMaxLen == 4

RECURSIVE SeqsUpTo(_, _)
SeqsUpTo(S, n) ==
    IF n = 0 THEN {<<>>}
    ELSE LET shorter == SeqsUpTo(S, n - 1)
         IN  shorter \cup {Append(t, x) : t \in shorter, x \in S}

InitFilter ==
    \E arr \in SeqsUpTo(AllHandles, FilterMaxLen) :
       /\ \A b \in Bindings : Count(b, arr) <= 1
       /\ hasWindow = TRUE
       /\ media = [q \in QuerySet |-> "MediaQueryList"]
       /\ listeners = [q \in QuerySet |-> 1]
       /\ handlers = arr
       /\ width = Px(500)
       /\ reported = [q \in QuerySet |-> matchMedia(q, Px(500))]
       /\ queue = <<>>
       /\ iter = <<>>
       /\ idx = 1
       /\ phase = [b \in Bindings |->
                      IF Count(b, arr) = 1 THEN "subscribed" ELSE "new"]
       /\ screenSize = [b \in Bindings |->
                      IF Count(b, arr) = 1
                         THEN [isXSmall |-> "true", isSmall |-> "false",
                               isMedium |-> "false", isLarge |-> "false"]
                         ELSE NoSize]
       /\ pending = [b \in Bindings |-> NoSize]
       /\ result = NoSize
       /\ op = Step("init", Idle, None, Idle)
       /\ calls = NoCalls
       /\ atEval = <<>>
       /\ nInto = 0
       /\ nFlip = 0
       /\ subs = [h \in AllHandles |-> Count(h, arr)]
       /\ subsAtStart = NoCalls
       /\ InitMiddleware
       /\ InitApp

NextFilter ==
    \/ \E h \in Handles : Unsubscribe(h)
    \/ \E b \in Bindings : Cleanup(b)

SpecFilter == InitFilter /\ [][NextFilter]_vars

----------------------------------------------------------------------------
(* The middleware, one step per await.  The broadcaster is not loaded on    *)
(* the server: its variables keep the values of a module without a window.  *)

bcVars == <<hasWindow, media, listeners, handlers, width, reported, queue, iter, idx,
            phase, screenSize, pending, result, op, calls, atEval, nInto, nFlip,
            subs, subsAtStart>>

AtRest == pc \in {"idle", "done"}

(* the client's cookie changes between two requests: it expires, is         *)
(* cleared, or is replaced by a value of the client's choosing              *)
SetCookie(c) ==
    /\ AtRest
    /\ jar # c
    /\ jar' = c
    /\ UNCHANGED <<req, pc, response, sessionOps, createdFor>>
    /\ UNCHANGED bcVars
    /\ UNCHANGED appVars

(* a request arrives; the framework runs the middleware on the paths the    *)
(* matcher selects and serves the others directly                           *)
Request(path) ==
    /\ AtRest
    /\ req' = [path |-> path, cookie |-> jar]
    /\ sessionOps' = <<>>
    /\ createdFor' = Undefined
    /\ IF config_matcher(path)
          THEN pc' = "enter" /\ response' = None
          ELSE pc' = "done" /\ response' = "next"
    /\ UNCHANGED jar
    /\ UNCHANGED bcVars
    /\ UNCHANGED appVars

(* const path = ...; if (!isProtectedRoute(path)) return NextResponse.next() *)
middleware_route ==
    /\ pc = "enter"
    /\ IF ~isProtectedRoute(req.path)
          THEN pc' = "done" /\ response' = "next"
          ELSE pc' = "cookies" /\ response' = response
    /\ UNCHANGED <<jar, req, sessionOps, createdFor>>
    /\ UNCHANGED bcVars
    /\ UNCHANGED appVars

(* const cookie = (await cookies()).get('session')?.value; if (!cookie) ... *)
middleware_cookie ==
    /\ pc = "cookies"
    /\ sessionOps' = Append(sessionOps, "cookies.get")
    /\ pc' = IF ~Truthy(req.cookie) THEN "unauthorized" ELSE "decrypt"
    /\ UNCHANGED <<jar, req, response, createdFor>>
    /\ UNCHANGED bcVars
    /\ UNCHANGED appVars

(* const session = await decrypt(cookie); if (!session?.userId) ...; next() *)
middleware_session ==
    /\ pc = "decrypt"
    /\ sessionOps' = Append(sessionOps, "decrypt")
    /\ IF ~Truthy(userIdOf(decrypt(req.cookie)))
          THEN pc' = "unauthorized" /\ response' = response
          ELSE pc' = "done" /\ response' = "next"
    /\ UNCHANGED <<jar, req, createdFor>>
    /\ UNCHANGED bcVars
    /\ UNCHANGED appVars

(* the production body: NextResponse.redirect(new URL('/auth/login', ...)) *)
redirectUnauthorized_production ==
    /\ pc = "unauthorized"
    /\ pc' = "done"
    /\ response' = "redirect"
    /\ UNCHANGED <<jar, req, sessionOps, createdFor>>
    /\ UNCHANGED bcVars
    /\ UNCHANGED appVars

(* return await _DEMO_logIn() *)
redirectUnauthorized ==
    /\ pc = "unauthorized"
    /\ pc' = "login"
    /\ UNCHANGED <<jar, req, response, sessionOps, createdFor>>
    /\ UNCHANGED bcVars
    /\ UNCHANGED appVars

(* the session module's createSession: sets the client's session cookie *)
createSession(userId) ==
    /\ sessionOps' = Append(sessionOps, "createSession")
    /\ createdFor' = userId
    /\ jar' = encrypt(userId)

(* _DEMO_logIn: await createSession(defaultUser.id); return NextResponse.next() *)
DEMO_logIn ==
    /\ pc = "login"
    /\ createSession(DefaultUserId)
    /\ pc' = "done"
    /\ response' = "next"
    /\ UNCHANGED req
    /\ UNCHANGED bcVars
    /\ UNCHANGED appVars

InitMw == InitWith(FALSE, 0)

NextMw ==
    \/ \E c \in Cookies : SetCookie(c)
    \/ \E path \in Paths : Request(path)
    \/ middleware_route
    \/ middleware_cookie
    \/ middleware_session
    \/ redirectUnauthorized
    \/ DEMO_logIn

SpecMw == InitMw /\ [][NextMw]_vars

----------------------------------------------------------------------------
(* The employee store *)

bcState == <<hasWindow, media, listeners, handlers, width, reported, queue, iter, idx,
             phase, screenSize, pending, result, calls, atEval, nInto, nFlip,
             subs, subsAtStart>>

IDs(arr) == {arr[i].ID : i \in 1..Len(arr)}

(* employees.findIndex(emp => emp.ID === id): 0 stands for -1 *)
findIndex(arr, id) ==
    IF \E i \in 1..Len(arr) : arr[i].ID = id
       THEN CHOOSE i \in 1..Len(arr) :
               /\ arr[i].ID = id
               /\ \A j \in 1..(i - 1) : arr[j].ID # id
       ELSE 0

(* an ID taken from the length of the array *)
addEmployee_lengthId(employee) ==
    LET newEmployee == [ID |-> Len(employees) + 1,
                        FirstName |-> employee.FirstName]
    IN  /\ employees' = Append(employees, newEmployee)
        /\ nextId' = nextId + 1
        /\ ret' = Returned("employee", newEmployee)
        /\ issued' = issued \cup {newEmployee.ID}

(* { ...employee, ID: nextId++ }; employees.push(newEmployee) *)
addEmployee(employee) ==
    LET newEmployee == [ID |-> nextId, FirstName |-> employee.FirstName]
    IN  /\ employees' = Append(employees, newEmployee)
        /\ nextId' = nextId + 1
        /\ ret' = Returned("employee", newEmployee)
        /\ issued' = issued \cup {newEmployee.ID}

(* a merge in which the payload's ID wins *)
merged_payloadId(old, employee, id) ==
    [ID |-> employee.ID,
     FirstName |-> IF employee.FirstName = Absent THEN old.FirstName
                   ELSE employee.FirstName]

(* { ...employees[index], ...employee, ID: id } *)
merged(old, employee, id) ==
    [ID |-> id,
     FirstName |-> IF employee.FirstName = Absent THEN old.FirstName
                   ELSE employee.FirstName]

updateEmployee(id, employee) ==
    LET index == findIndex(employees, id)
    IN  /\ IF index # 0
              THEN /\ employees' = [employees EXCEPT
                                      ![index] = merged(employees[index], employee, id)]
                   /\ ret' = Returned("employee",
                                      merged(employees[index], employee, id))
              ELSE /\ employees' = employees
                   /\ ret' = Returned("null", NoEmployee)
        /\ UNCHANGED <<nextId, issued>>

(* employees.splice(index, 1) *)
splice(arr, index) == RemoveAt(arr, index)

deleteEmployee(id) ==
    LET index == findIndex(employees, id)
    IN  /\ IF index # 0
              THEN /\ employees' = splice(employees, index)
                   /\ ret' = Returned("true", NoEmployee)
              ELSE /\ employees' = employees
                   /\ ret' = Returned("false", NoEmployee)
        /\ UNCHANGED <<nextId, issued>>

resetEmployees ==
    /\ employees' = <<defaultEmployee>>
    /\ nextId' = 2
    /\ ret' = Returned(Undefined, NoEmployee)
    /\ issued' = {defaultEmployee.ID}

(* The service called directly. *)
AddEmployee(employee) ==
    /\ nextId <= MaxId
    /\ addEmployee(employee)
    /\ args' = [id |-> 0, employee |-> employee]
    /\ op' = Step("addEmployee", Idle, None, Idle)
    /\ UNCHANGED <<bcState, mwVars, pgVars, loVars>>

UpdateEmployee(id, employee) ==
    /\ updateEmployee(id, employee)
    /\ args' = [id |-> id, employee |-> employee]
    /\ op' = Step("updateEmployee", Idle, None, Idle)
    /\ UNCHANGED <<bcState, mwVars, pgVars, loVars>>

DeleteEmployee(id) ==
    /\ deleteEmployee(id)
    /\ args' = [id |-> id, employee |-> NoEmployee]
    /\ op' = Step("deleteEmployee", Idle, None, Idle)
    /\ UNCHANGED <<bcState, mwVars, pgVars, loVars>>

ResetEmployees ==
    /\ resetEmployees
    /\ args' = NoArg
    /\ op' = Step("resetEmployees", Idle, None, Idle)
    /\ UNCHANGED <<bcState, mwVars, pgVars, loVars>>

InitStoreSpec == InitWith(FALSE, 0)

NextStore ==
    \/ \E employee \in Payloads : AddEmployee(employee)
    \/ \E id \in 0..MaxId : \E employee \in Payloads : UpdateEmployee(id, employee)
    \/ \E id \in 0..MaxId : DeleteEmployee(id)
    \/ ResetEmployees

SpecStore == InitStoreSpec /\ [][NextStore]_vars

----------------------------------------------------------------------------
(* The form page (app/pages/form/page.tsx).  A handler and the render that  *)
(* follows its state updates are one step: React renders before it handles  *)
(* the next click, so a handler sees the state of the latest render.        *)

(* setEmployees(service.getAllEmployees()), read after the store call *)
refreshEmployees == rows' = employees'

resetForm ==
    /\ isEditing' = FALSE
    /\ editingId' = Null

(* first render of Page *)
PageRender ==
    /\ pagePhase = "new"
    /\ pagePhase' = "rendered"
    /\ rows' = <<>>
    /\ isEditing' = FALSE
    /\ editingId' = Null
    /\ op' = Step("pageRender", Idle, None, Idle)
    /\ UNCHANGED <<bcState, mwVars, stVars, loVars>>

(* useEffect(() => setEmployees(service.getAllEmployees()), []) *)
PageLoad ==
    /\ pagePhase = "rendered"
    /\ pagePhase' = "loaded"
    /\ rows' = employees
    /\ op' = Step("pageLoad", Idle, None, Idle)
    /\ UNCHANGED <<isEditing, editingId>>
    /\ UNCHANGED <<bcState, mwVars, stVars, loVars>>

(* the page is left: its state is dropped, the store module stays loaded *)
PageUnmount ==
    /\ pagePhase = "loaded"
    /\ pagePhase' = "new"
    /\ rows' = <<>>
    /\ isEditing' = FALSE
    /\ editingId' = Null
    /\ op' = Step("pageUnmount", Idle, None, Idle)
    /\ UNCHANGED <<bcState, mwVars, stVars, loVars>>

OnSubmit(isValid, currentFormData) ==
    /\ pagePhase # "new"
    /\ IF ~isValid
          THEN /\ op' = Step("onSubmit", Idle, None, Idle)
               /\ UNCHANGED <<stVars, rows, isEditing, editingId>>
          ELSE IF isEditing /\ editingId # Null
                  THEN /\ updateEmployee(editingId[1], currentFormData)
                       /\ args' = [id |-> editingId[1], employee |-> currentFormData]
                       /\ IF ret'.value = "employee"
                             THEN /\ refreshEmployees
                                  /\ resetForm
                                  /\ op' = Step("onSubmit", Idle, "resetForm", "update")
                             ELSE /\ UNCHANGED <<rows, isEditing, editingId>>
                                  /\ op' = Step("onSubmit", Idle, None, "update")
                  ELSE /\ nextId <= MaxId
                       /\ addEmployee(currentFormData)
                       /\ args' = [id |-> 0, employee |-> currentFormData]
                       /\ refreshEmployees
                       /\ resetForm
                       /\ op' = Step("onSubmit", Idle, "resetForm", "add")
    /\ pagePhase' = pagePhase
    /\ UNCHANGED <<bcState, mwVars, loVars>>

(* the Edit button of row i of the grid *)
OnEditEmployee(i) ==
    /\ pagePhase # "new"
    /\ i \in 1..Len(rows)
    /\ isEditing' = TRUE
    /\ editingId' = Some(rows[i].ID)
    /\ op' = Step("onEditEmployee", Idle, None, Idle)
    /\ UNCHANGED <<rows, pagePhase>>
    /\ UNCHANGED <<bcState, mwVars, stVars, loVars>>

(* a delete handler that leaves the form alone *)
OnDeleteEmployee_keepsForm(i) ==
    /\ pagePhase # "new"
    /\ i \in 1..Len(rows)
    /\ deleteEmployee(rows[i].ID)
    /\ args' = [id |-> rows[i].ID, employee |-> NoEmployee]
    /\ IF ret'.value = "true" THEN refreshEmployees ELSE rows' = rows
    /\ op' = Step("onDeleteEmployee", Idle, None, Idle)
    /\ UNCHANGED <<isEditing, editingId, pagePhase>>
    /\ UNCHANGED <<bcState, mwVars, loVars>>

(* the Delete button of row i of the grid *)
OnDeleteEmployee(i) ==
    /\ pagePhase # "new"
    /\ i \in 1..Len(rows)
    /\ deleteEmployee(rows[i].ID)
    /\ args' = [id |-> rows[i].ID, employee |-> NoEmployee]
    /\ IF ret'.value = "true"
          THEN /\ refreshEmployees
               /\ IF editingId = Some(rows[i].ID)
                     THEN /\ resetForm
                          /\ op' = Step("onDeleteEmployee", Idle, "resetForm", Idle)
                     ELSE /\ UNCHANGED <<isEditing, editingId>>
                          /\ op' = Step("onDeleteEmployee", Idle, None, Idle)
          ELSE /\ UNCHANGED <<rows, isEditing, editingId>>
               /\ op' = Step("onDeleteEmployee", Idle, None, Idle)
    /\ pagePhase' = pagePhase
    /\ UNCHANGED <<bcState, mwVars, loVars>>

(* the Cancel button, rendered while isEditing *)
OnCancelEdit ==
    /\ pagePhase # "new"
    /\ isEditing
    /\ resetForm
    /\ op' = Step("onCancelEdit", Idle, "resetForm", Idle)
    /\ UNCHANGED <<rows, pagePhase>>
    /\ UNCHANGED <<bcState, mwVars, stVars, loVars>>

(* the Reset Form button *)
OnResetForm ==
    /\ pagePhase # "new"
    /\ resetForm
    /\ op' = Step("resetForm", Idle, "resetForm", Idle)
    /\ UNCHANGED <<rows, pagePhase>>
    /\ UNCHANGED <<bcState, mwVars, stVars, loVars>>

InitForm == InitWith(TRUE, Px(1000))

NextForm ==
    \/ PageRender
    \/ PageLoad
    \/ PageUnmount
    \/ \E isValid \in BOOLEAN : \E data \in Payloads : OnSubmit(isValid, data)
    \/ \E i \in 1..MaxId : OnEditEmployee(i)
    \/ \E i \in 1..MaxId : OnDeleteEmployee(i)
    \/ OnCancelEdit
    \/ OnResetForm

SpecForm == InitForm /\ [][NextForm]_vars

----------------------------------------------------------------------------
(* The side-nav layouts (layouts/side-nav-inner-toolbar and                 *)
(* layouts/side-nav-outer-toolbar): the two components hold the same state  *)
(* and the same four handlers.  The layout is the hook instance             *)
(* LayoutBinding; isLarge is what useScreenSize returned at its latest      *)
(* render.                                                                  *)

LayoutBinding == "b1"
LayoutKinds == {"inner", "outer"}

isLarge == screenSize[LayoutBinding].isLarge = "true"

bcIdle == <<hasWindow, media, listeners, handlers, width, reported, queue, iter, idx,
            phase, screenSize, pending, result, subs, subsAtStart>>

(* a toggle that closes an open menu in two clicks *)
toggled_cycle(prevMenuStatus) ==
    IF prevMenuStatus = Closed THEN Opened
    ELSE IF prevMenuStatus = Opened THEN TemporaryOpened ELSE Closed

(* prevMenuStatus === MenuStatus.Closed ? MenuStatus.Opened : MenuStatus.Closed *)
toggled(prevMenuStatus) ==
    IF prevMenuStatus = Closed THEN Opened ELSE Closed

(* prevMenuStatus === MenuStatus.Closed ? MenuStatus.TemporaryOpened : prevMenuStatus *)
temporaryOpened(prevMenuStatus) ==
    IF prevMenuStatus = Closed THEN TemporaryOpened ELSE prevMenuStatus

(* an outside click that closes the menu at every width *)
outsideClicked_anyWidth(prevMenuStatus, large) == Closed

(* prevMenuStatus !== MenuStatus.Closed && !isLarge ? MenuStatus.Closed : prevMenuStatus *)
outsideClicked(prevMenuStatus, large) ==
    IF prevMenuStatus # Closed /\ ~large THEN Closed ELSE prevMenuStatus

Event(navigated, returned) == [navigated |-> navigated, returned |-> returned]

(* first render of the layout: useScreenSize(), then                        *)
(* useState(isLarge ? MenuStatus.Opened : MenuStatus.Closed)                *)
LayoutRender(kind) ==
    /\ layoutKind = None
    /\ useScreenSize_firstRender(LayoutBinding)
    /\ layoutKind' = kind
    /\ menuStatus' = IF screenSize'[LayoutBinding].isLarge = "true"
                        THEN Opened ELSE Closed
    /\ ev' = ev
    /\ UNCHANGED <<mwVars, stVars, pgVars>>

toggleMenu ==
    /\ Quiet
    /\ layoutKind # None
    /\ menuStatus' = toggled(menuStatus)
    /\ ev' = Event(FALSE, FALSE)
    /\ Forget
    /\ op' = Step("toggleMenu", LayoutBinding, None, Idle)
    /\ UNCHANGED <<bcIdle, layoutKind, mwVars, stVars, pgVars>>

temporaryOpenMenu ==
    /\ Quiet
    /\ layoutKind # None
    /\ menuStatus' = temporaryOpened(menuStatus)
    /\ ev' = Event(FALSE, FALSE)
    /\ Forget
    /\ op' = Step("temporaryOpenMenu", LayoutBinding, None, Idle)
    /\ UNCHANGED <<bcIdle, layoutKind, mwVars, stVars, pgVars>>

(* returns menuStatus === MenuStatus.Closed *)
onOutsideClick ==
    /\ Quiet
    /\ layoutKind # None
    /\ menuStatus' = outsideClicked(menuStatus, isLarge)
    /\ ev' = Event(FALSE, menuStatus = Closed)
    /\ Forget
    /\ op' = Step("onOutsideClick", LayoutBinding, None, Idle)
    /\ UNCHANGED <<bcIdle, layoutKind, mwVars, stVars, pgVars>>

(* a click on a navigation item: itemData.path present or not, the node     *)
(* selected already or not                                                  *)
onNavigationChanged(hasPath, selected) ==
    /\ Quiet
    /\ layoutKind # None
    /\ IF menuStatus = Closed \/ ~hasPath \/ selected
          THEN /\ menuStatus' = menuStatus
               /\ ev' = Event(FALSE, FALSE)
          ELSE /\ menuStatus' = IF ~isLarge \/ menuStatus = TemporaryOpened
                                   THEN Closed ELSE menuStatus
               /\ ev' = Event(TRUE, FALSE)
    /\ Forget
    /\ op' = Step("onNavigationChanged", LayoutBinding, None, Idle)
    /\ UNCHANGED <<bcIdle, layoutKind, mwVars, stVars, pgVars>>

NextLayout ==
    \/ \E kind \in LayoutKinds : LayoutRender(kind)
    \/ Effect(LayoutBinding)
    \/ Rerender(LayoutBinding)
    \/ \E w \in Widths : Resize(w)
    \/ Evaluate
    \/ Deliver
    \/ InvokeBinding
    \/ toggleMenu
    \/ temporaryOpenMenu
    \/ onOutsideClick
    \/ \E hasPath \in BOOLEAN : \E selected \in BOOLEAN :
          onNavigationChanged(hasPath, selected)

SpecLayout == Init /\ [][NextLayout]_vars





----------------------------------------------------------------------------
(* Properties *)

(* C1: immediately after unsubscribe(h) returns, the registry contains no   *)
(* occurrence of h, however many times h had been subscribed before.        *)
C1_UnsubscribeRemovesAll ==
    op.call = "unsubscribe" => op.arg \notin Range(handlers)

(* h was registered twice when the running forEach started, and the call    *)
(* made from inside that forEach removed both entries.                      *)
C1_Witness ==
    /\ op.call = "unsubscribe"
    /\ Running
    /\ Count(op.arg, iter) = 2
    /\ op.arg \notin Range(handlers)

(* C2 as stated: in every reachable state each handle appears at most once  *)
(* in the registry.                                                         *)
C2_AtMostOnce ==
    \A h \in AllHandles : Count(h, handlers) <= 1

(* C2 amended: each handle appears in the registry once per subscribe call  *)
(* made for it since its last unsubscribe, and the handle of a hook         *)
(* instance appears at most once.                                           *)
C2_OncePerSubscribe ==
    /\ \A h \in AllHandles : Count(h, handlers) = subs[h]
    /\ \A b \in Bindings : Count(b, handlers) <= 1

(* h has just been subscribed while it was already registered. *)
C2_Witness ==
    \E h \in Handles :
        /\ op.call = "subscribe"
        /\ op.arg = h
        /\ subs[h] = 2
        /\ Count(h, handlers) = 2
        /\ \A b \in Bindings : Count(b, handlers) <= 1

(* C3: subscribe(h) appends h at the end of the registry with no            *)
(* deduplication, and a handle registered twice is invoked twice by a       *)
(* notification.                                                            *)
C3_SubscribeAppends ==
    /\ [][op'.call = "subscribe" => handlers' = Append(handlers, op'.arg)]_vars
    /\ [](\A h \in AllHandles :
            (Quiet /\ nInto > 0 /\ Count(h, atEval) = 2) => calls[h] = 2)

C3_Witness ==
    \E h \in Handles :
        /\ Quiet
        /\ nInto > 0
        /\ Count(h, atEval) = 2
        /\ calls[h] = 2

(* C4: unsubscribe(h) with h not in the registry leaves the registry's      *)
(* contents and order unchanged.                                            *)
C4_UnsubscribeAbsentNoOp ==
    [][(op'.call = "unsubscribe" /\ op'.arg \notin Range(handlers))
          => handlers' = handlers]_vars

(* The call was made from inside a forEach over a registry without h, and   *)
(* the registry is still the array that forEach iterates.                   *)
C4_Witness ==
    /\ op.call = "unsubscribe"
    /\ Running
    /\ op.arg \notin Range(iter)
    /\ handlers = iter

(* C5: a handle is invoked by a notification only if, when that             *)
(* notification's forEach started, it had been subscribed and not           *)
(* unsubscribed since: after unsubscribe(h), h is not invoked by a later    *)
(* notification unless it is subscribed again.                              *)
C5_NoCallAfterUnsubscribe ==
    [][op'.name = "invoke" => subsAtStart[op'.h] > 0]_vars

(* A hook instance was torn down, and a later notification has invoked      *)
(* another handle without invoking its handle.                              *)
C5_Witness ==
    \E b \in Bindings :
        /\ phase[b] = "unmounted"
        /\ op.name = "invoke"
        /\ nInto > 0
        /\ calls[b] = 0

(* C6: when any of the four queries becomes matching, every handle that is  *)
(* in the registry at that moment is invoked, whichever query it was.       *)
C6_AllHandlersNotified ==
    (Quiet /\ nInto > 0) => \A h \in Range(atEval) : calls[h] >= 1

C6_Witness ==
    /\ Quiet
    /\ nInto > 0
    /\ reported["small"]
    /\ Len(atEval) = 2
    /\ \A h \in Range(atEval) : calls[h] >= 1

(* C7 as stated: after the viewport has moved from one range to another,    *)
(* every subscribed handle has been invoked once per query whose match      *)
(* state changed, and at least once.                                        *)
C7_OncePerTransition ==
    (Quiet /\ nFlip = 2) =>
        \A h \in Range(atEval) : calls[h] = nFlip /\ calls[h] >= 1

(* C7 amended: after the viewport has moved from one range to another,      *)
(* exactly one query has become matching, and every subscribed handle has   *)
(* been invoked once per registry entry for that query alone (not for the   *)
(* query that stopped matching), and at least once.                         *)
C7_OncePerMatchingTransition ==
    (Quiet /\ nFlip = 2) =>
        /\ nInto = 1
        /\ \A h \in AllHandles : calls[h] = Count(h, atEval) * nInto
        /\ \A h \in Range(atEval) : calls[h] >= 1

C7_Witness ==
    \E h \in Handles : \E b \in Bindings :
        /\ Quiet
        /\ nFlip = 2
        /\ width = Px(1920)
        /\ atEval = <<h, b>>
        /\ calls[h] = 1
        /\ calls[b] = 1

(* C8: once a hook instance has been notified of a viewport change, the     *)
(* state it publishes after the update is rendered equals getScreenSize()   *)
(* for the new viewport.                                                    *)
C8_BindingRepublishes ==
    \A b \in Bindings :
        calls[b] > 0 =>
            /\ pending[b] = NoSize => screenSize[b] = getScreenSize
            /\ pending[b] # NoSize => pending[b] = getScreenSize

C8_Witness ==
    \E b \in Bindings :
        /\ calls[b] > 0
        /\ pending[b] = NoSize
        /\ nFlip = 2
        /\ width = Px(1920)
        /\ screenSize[b].isLarge = "true"
        /\ screenSize[b].isXSmall = "false"

(* C9: the registry holds exactly one entry for each hook instance whose    *)
(* effect has run and that has not been torn down, and none for any other   *)
(* hook instance.                                                           *)
C9_OneEntryPerActiveBinding ==
    \A b \in Bindings :
        Count(b, handlers) = IF phase[b] = "subscribed" THEN 1 ELSE 0

C9_Witness ==
    \E a \in Bindings : \E b \in Bindings :
        /\ phase[a] = "subscribed"
        /\ phase[b] = "unmounted"
        /\ calls[a] > 0
        /\ Count(a, handlers) = 1
        /\ Count(b, handlers) = 0

(* C10: in a browser, for a whole-pixel width w, getScreenSize() returns    *)
(* isXSmall = (w < 600), isSmall = (600 <= w < 960),                        *)
(* isMedium = (960 <= w < 1280), isLarge = (w >= 1280).                     *)
C10_BreakpointRanges ==
    (op.name = "read" /\ hasWindow /\ width % 1000 = 0) =>
        LET w == width \div 1000 IN
        result = [isXSmall |-> Bool(w < 600),
                  isSmall  |-> Bool(600 <= w /\ w < 960),
                  isMedium |-> Bool(960 <= w /\ w < 1280),
                  isLarge  |-> Bool(w >= 1280)]

C10_Witness ==
    /\ op.name = "read"
    /\ hasWindow
    /\ width = Px(1920)
    /\ result = [isXSmall |-> "false", isSmall |-> "false",
                 isMedium |-> "false", isLarge |-> "true"]

AllUndefined ==
    [isXSmall |-> Undefined, isSmall |-> Undefined,
     isMedium |-> Undefined, isLarge |-> Undefined]

TrueFlags(size) ==
    {f \in {"isXSmall", "isSmall", "isMedium", "isLarge"} : size[f] = "true"}

(* C11: in a browser, for every viewport width, exactly one of the four     *)
(* flags returned by getScreenSize() is true.                               *)
C11_ExactlyOneFlag ==
    hasWindow => Cardinality(TrueFlags(getScreenSize)) = 1

(* C12: without a window, getScreenSize() returns all four flags as         *)
(* undefined, in every reachable state, and a call completes with that      *)
(* value.                                                                   *)
C12_AllUndefinedWithoutWindow ==
    ~hasWindow =>
        /\ getScreenSize = AllUndefined
        /\ op.name = "read" => result = AllUndefined
        /\ \A b \in Bindings : Mounted(b) => screenSize[b] = AllUndefined

C12_Witness ==
    /\ ~hasWindow
    /\ op.name = "read"
    /\ result = AllUndefined
    /\ handlers # <<>>
    /\ \E b \in Bindings : phase[b] = "subscribed"

(* C13: without a window the four queries are never constructed, no native  *)
(* listener exists, no change event is ever queued or delivered and no      *)
(* handle is ever invoked, whatever is subscribed or unsubscribed.          *)
C13_InertWithoutWindow ==
    ~hasWindow =>
        /\ \A q \in QuerySet : media[q] = Undefined /\ listeners[q] = 0
        /\ queue = <<>>
        /\ ~Running
        /\ calls = NoCalls
        /\ op.name \notin {"resize", "evaluate", "deliver", "invoke"}

C13_Witness ==
    /\ ~hasWindow
    /\ Len(handlers) = 2
    /\ op.call = "subscribe"
    /\ \E h \in Handles : subs[h] = 0 /\ h \notin Range(handlers)
    /\ \E b \in Bindings : phase[b] = "subscribed"
    /\ calls = NoCalls

RECURSIVE SumOver(_, _)
SumOver(f, S) ==
    IF S = {} THEN 0
    ELSE LET x == CHOOSE y \in S : TRUE IN f[x] + SumOver(f, S \ {x})

(* handler() calls made so far in the latest evaluation round *)
TotalCalls == SumOver(calls, AllHandles)

(* C14: a notification invokes the handles in registration order, one       *)
(* after the other: subscribe puts a handle after those registered before,  *)
(* the k-th call of a notification is to the k-th entry the registry had    *)
(* when the notification started, and while a forEach is running nothing    *)
(* but its next call happens.                                               *)
C14_InOrderSynchronous ==
    /\ [][op'.call = "subscribe" =>
            /\ SubSeq(handlers', 1, Len(handlers)) = handlers
            /\ handlers'[Len(handlers')] = op'.arg]_vars
    /\ [][op'.name = "invoke" =>
            /\ TotalCalls < Len(atEval)
            /\ op'.h = atEval[TotalCalls + 1]]_vars
    /\ [][Running => op'.name = "invoke"]_vars

(* Two different handles are registered; the first has been called and the  *)
(* second not yet.                                                          *)
C14_Witness ==
    /\ Running
    /\ idx = 2
    /\ Len(iter) = 2
    /\ atEval = iter
    /\ iter[1] # iter[2]
    /\ op.name = "invoke"
    /\ op.h = iter[1]
    /\ calls[iter[1]] = 1
    /\ calls[iter[2]] = 0

(* C15: getScreenSize() is a pure read: a call changes neither the          *)
(* registry nor the queries nor any hook instance and invokes no handle,    *)
(* and the value returned by a call is the value every later call returns   *)
(* until the viewport changes.                                              *)
C15_PureRead ==
    /\ [][op'.name = "read" =>
            UNCHANGED <<hasWindow, media, listeners, handlers, width, reported,
                        queue, iter, idx, phase, screenSize, pending, calls,
                        subs>>]_vars
    /\ [][(result = getScreenSize /\ op'.name # "resize") =>
            result' = getScreenSize']_vars

(* A read made after a notification round, with a registry of two entries.  *)
C15_Witness ==
    /\ op.name = "read"
    /\ result = getScreenSize
    /\ result.isLarge = "true"
    /\ Len(handlers) = 2
    /\ nInto > 0
    /\ \E b \in Bindings : calls[b] = 1

FlagValues == {"true", "false", Undefined}

C17_InvokedOnlyOnMatch ==
    /\ [][(\E h \in AllHandles : calls'[h] > calls[h]) =>
            (op'.name = "invoke" /\ Running /\ nInto > 0)]_vars
    /\ [](nInto = 0 => calls = NoCalls)
    /\ [](op.name \notin {"deliver", "invoke"} => ~Running)

(* A query stopped matching and none started: with two handles registered   *)
(* nothing was invoked, and a read made afterwards invoked nothing either.  *)
C17_Witness ==
    /\ Quiet
    /\ nFlip = 1
    /\ nInto = 0
    /\ Len(atEval) = 2
    /\ calls = NoCalls
    /\ op.name = "read"

(* C18: a forEach iterates the registry as it was when it started with      *)
(* respect to removals: while it runs, the array it iterates is the         *)
(* registry of the start of the round, and when the round is over every     *)
(* handle has been invoked once per entry it had then, also when another    *)
(* handle unsubscribed it before it was reached.                            *)
C18_RemovalDuringDispatch ==
    /\ Running => iter = atEval
    /\ (Quiet /\ nInto > 0) => \A h \in AllHandles : calls[h] = Count(h, atEval)

(* A handle has just been invoked although it is no longer registered:      *)
(* the handle before it unsubscribed it during this forEach.                *)
C18_Witness ==
    /\ op.name = "invoke"
    /\ op.call = None
    /\ op.h \in Handles
    /\ op.h \notin Range(handlers)
    /\ subs[op.h] = 0
    /\ Len(atEval) = 2
    /\ atEval[2] = op.h
    /\ atEval[1] # op.h
    /\ calls[op.h] = 1

(* C19: the four queries and their four native listeners exist from module  *)
(* load on in a browser, none without a window, and no operation creates a  *)
(* query or adds or removes a native listener.                              *)
C19_ListenersCreatedOnce ==
    /\ [](SumOver(listeners, QuerySet) = IF hasWindow THEN 4 ELSE 0)
    /\ [](\A q \in QuerySet :
            media[q] = IF hasWindow THEN "MediaQueryList" ELSE Undefined)
    /\ [][media' = media /\ listeners' = listeners]_vars

(* After subscriptions, a notification, a teardown and a read there are     *)
(* still four native listeners.                                             *)
C19_Witness ==
    /\ hasWindow
    /\ op.name = "read"
    /\ handlers # <<>>
    /\ \E b \in Bindings : phase[b] = "unmounted"
    /\ \A q \in QuerySet : listeners[q] = 1

(* the path begins with the six characters of /pages *)
BeginsWithPages(path) ==
    /\ Len(path) >= 6
    /\ <<path[1], path[2], path[3], path[4], path[5], path[6]>>
          = <<"/", "p", "a", "g", "e", "s">>

(* C20: the middleware never blocks or redirects.  It never returns a       *)
(* redirect and always has a next step until it has returned; when it has   *)
(* returned for a path that does not begin with /pages the request proceeds *)
(* and no session call was made; for a /pages path with no cookie, or a     *)
(* cookie that does not decrypt to a userId, createSession was called for   *)
(* the default user, as the last session call, and the request proceeds.    *)
C20_MiddlewareNeverBlocks ==
    /\ response \in {None, "next"}
    /\ ~AtRest => ENABLED (\/ middleware_route
                           \/ middleware_cookie
                           \/ middleware_session
                           \/ redirectUnauthorized
                           \/ DEMO_logIn)
    /\ (pc = "done" /\ config_matcher(req.path)) =>
          /\ response = "next"
          /\ ~BeginsWithPages(req.path) =>
                sessionOps = <<>> /\ createdFor = Undefined
          /\ (BeginsWithPages(req.path) /\ req.cookie \in {Undefined, ""}) =>
                /\ createdFor = DefaultUserId
                /\ sessionOps = <<"cookies.get", "createSession">>
          /\ (/\ BeginsWithPages(req.path)
              /\ req.cookie \notin {Undefined, ""}
              /\ userIdOf(decrypt(req.cookie)) \in {Undefined, ""}) =>
                /\ createdFor = DefaultUserId
                /\ sessionOps = <<"cookies.get", "decrypt", "createSession">>

(* A request to /pagesx with a cookie that does not verify has been         *)
(* answered: a session for the default user was created and it proceeds.    *)
C20_Witness ==
    /\ pc = "done"
    /\ req.path = <<"/", "p", "a", "g", "e", "s", "x">>
    /\ req.cookie = "garbage"
    /\ createdFor = DefaultUserId
    /\ jar = encrypt(DefaultUserId)
    /\ response = "next"

(* C21: a forEach ends after at most as many calls as the registry had      *)
(* entries when it started.  Every call moves it one position forward in    *)
(* an array whose length does not change, the next call is always           *)
(* possible, and a handle that a handle subscribed during the round, and    *)
(* that was not registered at its start, is not called in it.               *)
C21_DispatchTerminates ==
    /\ [][Running => \/ ~Running'
                     \/ (idx' = idx + 1 /\ Len(iter') = Len(iter))]_vars
    /\ [](Running => /\ Len(iter) = Len(atEval)
                     /\ ENABLED (InvokeBinding \/ InvokePlain))
    /\ [](TotalCalls <= Len(atEval))
    /\ []((Quiet /\ nInto > 0) =>
             \A h \in AllHandles : Count(h, atEval) = 0 => calls[h] = 0)

(* The forEach has ended with the call of a handle that subscribed another  *)
(* one: the new handle is registered and was not called.                    *)
C21_Witness ==
    /\ ~Running
    /\ nInto > 0
    /\ op.name = "invoke"
    /\ op.call = "subscribe"
    /\ Count(op.arg, atEval) = 0
    /\ Count(op.arg, handlers) = 1
    /\ calls[op.arg] = 0
    /\ TotalCalls = Len(atEval)

(* C22: whenever no change event, no forEach and no state update is         *)
(* pending and the host has evaluated the queries for the current width,    *)
(* the state of every mounted hook instance equals getScreenSize().         *)
C22_NeverStale ==
    (Quiet /\ Changed = <<>> /\ \A b \in Bindings : pending[b] = NoSize) =>
        \A b \in Bindings : Mounted(b) => screenSize[b] = getScreenSize

RECURSIVE Without(_, _)
Without(s, h) ==
    IF s = <<>> THEN <<>>
    ELSE IF Head(s) = h THEN Without(Tail(s), h)
         ELSE <<Head(s)>> \o Without(Tail(s), h)

(* C23: unsubscribe(h) leaves every other handle in the registry, as often  *)
(* as before and in the same relative order.                                *)
C23_UnsubscribeKeepsOthers ==
    [][op'.call = "unsubscribe" =>
          /\ \A g \in AllHandles \ {op'.arg} :
                Count(g, handlers') = Count(g, handlers)
          /\ Without(handlers', op'.arg) = Without(handlers, op'.arg)]_vars

(* unsubscribe(h) has returned and the registry holds three entries of     *)
(* the other handles: one handle twice, around the entry of a hook          *)
(* instance.                                                                *)
C23_Witness ==
    /\ op.call = "unsubscribe"
    /\ op.arg \in Handles
    /\ subs[op.arg] = 0
    /\ \E g \in Handles \ {op.arg} : \E b \in Bindings :
          /\ handlers = <<g, b, g>>
          /\ subs[g] = 2
          /\ phase[b] = "subscribed"

(* C24: in the employee store the stored IDs are pairwise distinct, nextId  *)
(* is greater than every stored ID and than every ID given out since the    *)
(* store was last initialised, and addEmployee gives out an ID that was     *)
(* not given out since then.                                                *)
C24_FreshIds ==
    /\ [](\A i, j \in 1..Len(employees) :
             employees[i].ID = employees[j].ID => i = j)
    /\ [](\A id \in IDs(employees) \cup issued : id < nextId)
    /\ [](IDs(employees) \subseteq issued)
    /\ [][op'.name = "addEmployee" =>
            /\ ret'.employee.ID \notin issued
            /\ employees'[Len(employees')].ID = ret'.employee.ID
            /\ Len(employees') = Len(employees) + 1]_vars

(* An employee has been added after two were deleted: its ID is above the   *)
(* IDs of the deleted ones, which are not stored any more.                  *)
C24_Witness ==
    /\ op.name = "addEmployee"
    /\ ret.employee.ID = 4
    /\ IDs(employees) = {2, 4}
    /\ issued = {1, 2, 3, 4}

(* C25: updateEmployee and deleteEmployee with an id that is not stored     *)
(* return null and false and change neither the store nor nextId; with a    *)
(* stored id, updateEmployee leaves the employee at its position with ID    *)
(* id and the other employees as they were, and deleteEmployee removes      *)
(* that employee and no other.                                              *)
C25_UpdateDeleteById ==
    /\ [][(op'.name = "updateEmployee" /\ args'.id \notin IDs(employees)) =>
            /\ ret'.value = "null"
            /\ employees' = employees
            /\ nextId' = nextId]_vars
    /\ [][(op'.name = "deleteEmployee" /\ args'.id \notin IDs(employees)) =>
            /\ ret'.value = "false"
            /\ employees' = employees
            /\ nextId' = nextId]_vars
    /\ [][(op'.name = "updateEmployee" /\ args'.id \in IDs(employees)) =>
            /\ ret'.value = "employee"
            /\ ret'.employee.ID = args'.id
            /\ Len(employees') = Len(employees)
            /\ \A i \in 1..Len(employees) :
                  /\ employees'[i].ID = employees[i].ID
                  /\ employees[i].ID # args'.id => employees'[i] = employees[i]
            /\ nextId' = nextId]_vars
    /\ [][(op'.name = "deleteEmployee" /\ args'.id \in IDs(employees)) =>
            /\ ret'.value = "true"
            /\ Len(employees') = Len(employees) - 1
            /\ IDs(employees') = IDs(employees) \ {args'.id}
            /\ \A i \in 1..Len(employees) :
                  employees[i].ID # args'.id =>
                     \E j \in 1..Len(employees') : employees'[j] = employees[i]
            /\ nextId' = nextId]_vars

(* updateEmployee(2, ...) has been called with a payload that carries the   *)
(* ID of another stored employee: the employee still has ID 2.              *)
C25_Witness ==
    /\ op.name = "updateEmployee"
    /\ args.id = 2
    /\ args.employee.ID = 1
    /\ ret.value = "employee"
    /\ ret.employee = [ID |-> 2, FirstName |-> "Ann"]
    /\ Len(employees) = 3
    /\ employees[1].ID = 1
    /\ employees[2] = ret.employee

(* C26: on the form page isEditing is true exactly when editingId is not    *)
(* null, and while isEditing is true editingId is the ID of an employee     *)
(* that is in the store.                                                    *)
C26_EditingIdStored ==
    /\ isEditing <=> editingId # Null
    /\ isEditing => editingId[1] \in IDs(employees)

(* The employee that was being edited has been deleted, another one is      *)
(* still stored, and the form has been reset.                               *)
C26_Witness ==
    /\ op.name = "onDeleteEmployee"
    /\ op.call = "resetForm"
    /\ ~isEditing
    /\ editingId = Null
    /\ args.id \notin IDs(employees)
    /\ rows = employees
    /\ Len(rows) >= 1

LayoutHandlers ==
    {"toggleMenu", "temporaryOpenMenu", "onOutsideClick", "onNavigationChanged"}

(* C27: in a rendered layout menuStatus is Closed, Opened or                *)
(* TemporaryOpened; toggleMenu sends Closed to Opened and the other two to  *)
(* Closed; temporaryOpenMenu sends Closed to TemporaryOpened and leaves     *)
(* the other two; no step enters TemporaryOpened from another status than   *)
(* Closed.                                                                  *)
C27_MenuStatusTransitions ==
    /\ [](layoutKind # None => menuStatus \in {Closed, Opened, TemporaryOpened})
    /\ [][op'.name = "toggleMenu" =>
            /\ menuStatus = Closed => menuStatus' = Opened
            /\ menuStatus \in {Opened, TemporaryOpened} => menuStatus' = Closed]_vars
    /\ [][op'.name = "temporaryOpenMenu" =>
            /\ menuStatus = Closed => menuStatus' = TemporaryOpened
            /\ menuStatus \in {Opened, TemporaryOpened} => menuStatus' = menuStatus]_vars
    /\ [][(menuStatus' = TemporaryOpened /\ menuStatus # TemporaryOpened) =>
            menuStatus = Closed]_vars

(* toggleMenu has closed the menu of the inner-toolbar layout on a large    *)
(* viewport, after the layout's effect has subscribed.                      *)
C27_Witness ==
    /\ op.name = "toggleMenu"
    /\ menuStatus = Closed
    /\ layoutKind = "inner"
    /\ isLarge
    /\ phase[LayoutBinding] = "subscribed"

C29_BreakpointChangeKeepsMenu ==
    /\ [][op'.name = "render" =>
            /\ menuStatus = NotRendered
            /\ menuStatus' = IF screenSize'[LayoutBinding].isLarge = "true"
                                THEN Opened ELSE Closed
            /\ screenSize'[LayoutBinding] = getScreenSize]_vars
    /\ [][(menuStatus # NotRendered /\ menuStatus' # menuStatus) =>
            op'.name \in LayoutHandlers]_vars
    /\ [][op'.name \in {"resize", "evaluate", "deliver", "invoke", "rerender",
                        "effect"} => menuStatus' = menuStatus]_vars

(* The layout was rendered on a large viewport, the viewport became small   *)
(* and the layout has rendered again with isLarge false: the menu is still  *)
(* Opened.                                                                  *)
C29_Witness ==
    /\ op.name = "rerender"
    /\ layoutKind # None
    /\ ~isLarge
    /\ screenSize[LayoutBinding].isSmall = "true"
    /\ menuStatus = Opened

====
